---- MODULE Spec2Model ----
(***************************************************************************)
(* A model of zfs3backup.                                                  *)
(*                                                                         *)
(*  - pput.py: the parallel multipart uploader.  One coordinator thread    *)
(*    (UploadSupervisor.main_loop) reads chunks from a StreamHandler and   *)
(*    dispatches them over a bounded job queue to UploadWorker threads,    *)
(*    which publish results on an unbounded result queue.                  *)
(*  - snap.py: the snapshot pair manager (backup_incremental and the       *)
(*    remote lineage health it consults).                                  *)
(*                                                                         *)
(* Spec      the uploader, every interleaving of coordinator and workers   *)
(* FairSpec  the uploader with weakly fair threads                         *)
(* SnapSpec  the snapshot subsystem (single threaded)                      *)
(***************************************************************************)
EXTENDS Integers, Sequences, FiniteSets, TLC

\* ------------------------------------------------------------ bounds
\* longest input stream, in bytes
MaxLen == 4
\* largest chunk_size, in bytes
MaxChunkSize == 2
\* largest number of worker threads
MaxConcurrency == 2
\* largest estimated upload size, in bytes
MaxEstimated == 420000
\* bytes in a KiB, scaled down from 1024 so that the sizes for which the
\* part-count term exceeds the 10 MiB floor fit 32-bit integers
KiB == 2
\* number of snapshot names of the dataset
NumSnaps == 3

\* ------------------------------------------------- program constants
\* CFG['MAX_RETRIES'], the default of retry(times=...)
MAX_RETRIES == 3
\* optimize_chunksize's max_parts
max_parts == 9999

\* Python's None where a tuple, a list or a byte string may stand; None and
\* b"" are both falsy, which is all main_loop asks of get_chunk's value
None == <<>>
\* None where a snapshot name may stand (snapshot n stands for "D@<n>")
NoName == 0

VARIABLES
    \* --- StreamHandler
    stream,          \* the bytes the input stream will deliver
    pos,             \* how many of them the input has delivered so far
    chunk_size,      \* StreamHandler.chunk_size
    partial_chunk,   \* StreamHandler._partial_chunk
    eof_reached,     \* StreamHandler._eof_reached
    \* --- UploadSupervisor
    concurrency,     \* main_loop's concurrency argument
    pc,              \* where main_loop is
    chunk_index,     \* main_loop's local chunk_index
    cur,             \* the (index, chunk) _send_chunk is putting
    pending_chunks,  \* UploadSupervisor._pending_chunks
    results,         \* UploadSupervisor.results, (index, md5, etag) tuples
    outbox,          \* the bounded job queue (work_queue)
    inbox,           \* the unbounded result queue (result_queue)
    outcome,         \* how main_loop ended: a return or the exception raised
    returned,        \* the value main_loop returned
    \* --- UploadWorker threads
    wstate,          \* per worker: "idle" (in inbox.get), "uploading", "dead"
    wjob,            \* per worker: the (index, chunk) it holds
    attempt,         \* per worker: retry's loop variable
    \* --- the object store's side of the multipart upload
    calls,           \* Complete / Abort calls made on the upload, in order
    submitted,       \* the Parts list handed to Complete
    store,           \* parts the store accepted: [PartNumber, ETag]
    sent,            \* every (index, chunk) put on the job queue, in order
    \* --- snapshot subsystem
    locals,          \* ZFSSnapshotManager._snapshots: names in listing order
    remote,          \* S3SnapshotManager._snapshots: name -> metadata
    op,              \* the operation that ran
    target,          \* its snap_name argument
    cmds,            \* the CommandExecutor calls (shell and pipe) made, in order
    snap_outcome,    \* how the operation ended
    force,           \* restore's force argument
    zfs_list,        \* the dataset names `zfs list` prints
    is_healthy_cached_value,  \* per remote snapshot that has the attribute: its value
    stored_reason,   \* per remote snapshot: S3Snapshot._reason_broken
    reported,        \* per remote snapshot queried: what reason_broken returned last
    pairs,           \* what PairManager.list() returned: (s3_snap, z_snap) pairs
    compressor,      \* per remote snapshot: its 'compressor' metadata
    \* --- chunk size selection
    estimated,       \* the --estimated upload size, in bytes
    optimized,       \* what optimize_chunksize(estimated) returned, once it has
    \* --- ZFSSnapshotManager building its catalog
    listing,         \* the dataset's snapshot tags as `zfs list` prints them
    snapshot_prefix, \* ZFSSnapshotManager._snapshot_prefix
    built,           \* what _build_snapshots returned, once it has: (name, parent) in order
    \* --- CommandExecutor
    has_pv,          \* whether `which pv` finds the throughput meter
    pipe_call,       \* the arguments pipe() was called with, once it was
    printed,         \* the command line shell() printed (dry run)
    executed,        \* the command line shell() handed to the system shell
    \* --- the chain walks, one step at a time
    walk_op,         \* "none", "is_healthy" or "restore": what was asked for
    walk_pc,         \* where the walk stands
    current_snap,    \* restore's current_snap (the snapshot asked about, for is_healthy)
    restore_list,    \* restore's to_restore list
    walk_outcome,    \* "none", "returned", or the exception that ended the walk
    frames,          \* the call stack of _is_healthy: the snapshot of each frame
    frame_result,    \* what the frame that just returned returned, if one did
    \* --- a backup run after another
    first_run        \* the target and the commands of an earlier successful
                     \* backup_incremental whose uploads the remote catalog now holds

upload_vars == <<stream, pos, chunk_size, partial_chunk, eof_reached,
                 concurrency, pc, chunk_index, cur, pending_chunks, results,
                 outbox, inbox, outcome, returned, wstate, wjob, attempt,
                 calls, submitted, store, sent>>
memo_vars == <<is_healthy_cached_value, stored_reason, reported>>
snap_vars == <<locals, remote, op, target, cmds, snap_outcome, force, zfs_list,
               memo_vars, pairs, compressor>>
size_vars == <<estimated, optimized>>
catalog_vars == <<listing, snapshot_prefix, built>>
pipe_vars == <<has_pv, pipe_call, printed, executed>>
walk_vars == <<walk_op, walk_pc, current_snap, restore_list, walk_outcome, frames,
               frame_result>>
rerun_vars == <<first_run>>
util_vars == <<size_vars, catalog_vars, pipe_vars, walk_vars, rerun_vars>>
vars == <<upload_vars, snap_vars, util_vars>>

\* ------------------------------------------------------------ helpers
Min(a, b) == IF a < b THEN a ELSE b

RECURSIVE Concat(_)
Concat(ss) == IF ss = <<>> THEN <<>> ELSE Head(ss) \o Concat(Tail(ss))

\* sorted(items, key=...): keys[i] is the key of items[i].  The sort is
\* ascending and stable: items[i] lands after every item with a smaller key
\* and after the earlier items with an equal key.
SortedBy(keys, items) ==
    [p \in 1..Len(items) |->
        items[CHOOSE i \in 1..Len(items) :
                 Cardinality({j \in 1..Len(items) :
                                \/ keys[j] < keys[i]
                                \/ keys[j] = keys[i] /\ j < i}) + 1 = p]]

Workers == 1..concurrency

\* ------------------------------------------------------------ digests
\* hashlib.md5 of a byte string, as a one byte digest: order sensitive
RECURSIVE MD5From(_, _)
MD5From(h, bytes) ==
    IF bytes = <<>> THEN h
    ELSE MD5From((h * 31 + Head(bytes) + 7) % 251, Tail(bytes))

MD5(bytes) == MD5From(17, bytes)

\* md5.hexdigest(): the digest byte as two hex digits
HexDigest(d) == <<d \div 16, d % 16>>

\* binascii.a2b_hex: two hex digits back to the raw byte
A2bHex(hex) == <<hex[1] * 16 + hex[2]>>

\* the ETag the store answers for a part: the quoted hex md5 of its body
StoreETag(chunk) == <<"quoted", HexDigest(MD5(chunk))>>

\* multipart_etag(digests): md5 over the raw digests, and the count
multipart_etag(digests) ==
    <<HexDigest(MD5(Concat([i \in 1..Len(digests) |-> A2bHex(digests[i])]))),
      Len(digests)>>

\* ------------------------------------------------------ StreamHandler
\* StreamHandler.finished
finished == eof_reached /\ Len(partial_chunk) = 0

ChunkCompleteEarly(buffered, eof) == Len(buffered) >= 1 \/ eof

\* get_chunk: when the buffered bytes are handed out
ChunkComplete(buffered, eof) == Len(buffered) = chunk_size \/ eof

\* main_loop: "if chunk:" (None and b"" are both falsy)
ShouldSend(chunk) == chunk # None /\ Len(chunk) > 0

\* what one input_stream.read(n) may return with `left` bytes still to come:
\* nothing at end of stream, else between 1 and n bytes
ReadLens(n, left) == IF left = 0 THEN {0} ELSE 1..Min(n, left)

\* ---------------------------------------------------- UploadSupervisor
QueueCapLoose(c) == c + 1

\* a job queue that never has room
QueueCapNone(c) == 0

\* _start_workers: Queue(maxsize=concurrency)
QueueCap(c) == c

\* _finish_upload: {'PartNumber': r[0], 'ETag': r[2]} for r in self.results
Parts(rs) == [i \in 1..Len(rs) |-> [PartNumber |-> rs[i][1], ETag |-> rs[i][3]]]

UnsortedParts(rs) == Parts(rs)

\* _finish_upload: the Parts list, sorted by PartNumber
SortedParts(rs) ==
    SortedBy([i \in 1..Len(rs) |-> Parts(rs)[i].PartNumber], Parts(rs))

UnsortedResults(rs) == rs

\* main_loop: self.results.sort()  (tuples; the index comes first and is unique)
SortedResults(rs) == SortedBy([i \in 1..Len(rs) |-> rs[i][1]], rs)

NeverEmpty(rs) == FALSE

\* _finish_upload: len(self.results) == 0
NoPartsProduced(rs) == Len(rs) = 0

RetryOneMore(a, times) == a > times

\* retry: "if attempt >= times: raise"
RetriesExhausted(a, times) == a >= times

\* the part upload's possible ends: a 200, a raised exception, another status
AttemptOutcomes == {"ok", "exception", "non200"}

\* ---------------------------------------------------------- the uploader
\* the snapshot subsystem at rest
SnapIdle ==
    /\ locals = <<>>
    /\ remote = <<>>
    /\ op = "none"
    /\ target = NoName
    /\ cmds = <<>>
    /\ snap_outcome = "none"
    /\ force = FALSE
    /\ zfs_list = {}
    /\ is_healthy_cached_value = <<>>
    /\ stored_reason = <<>>
    /\ reported = <<>>
    /\ pairs = <<>>
    /\ compressor = <<>>

\* StreamHandler(input, chunk_size) and UploadSupervisor(...) constructed.
\* Byte i of the stream carries the value i: the chunker never looks at the
\* values, and distinct values make any loss, repeat or reordering visible.
UploadInit ==
    /\ stream \in {[i \in 1..n |-> i] : n \in 0..MaxLen}
    /\ pos = 0
    /\ chunk_size \in 1..MaxChunkSize
    /\ partial_chunk = <<>>
    /\ eof_reached = FALSE
    /\ concurrency \in 1..MaxConcurrency
    /\ pc = "start"
    /\ chunk_index = 0
    /\ cur = None
    /\ pending_chunks = 0
    /\ results = <<>>
    /\ outbox = <<>>
    /\ inbox = <<>>
    /\ outcome = "running"
    /\ returned = None
    /\ wstate = [w \in 1..MaxConcurrency |-> "unstarted"]
    /\ wjob = [w \in 1..MaxConcurrency |-> None]
    /\ attempt = [w \in 1..MaxConcurrency |-> 0]
    /\ calls = <<>>
    /\ submitted = None
    /\ store = {}
    /\ sent = <<>>

\* no chunk size asked for
SizeIdle ==
    /\ estimated = 0
    /\ optimized = None

\* no local catalog built
CatalogIdle ==
    /\ listing = <<>>
    /\ snapshot_prefix = <<>>
    /\ built = None

\* no pipeline asked for
PipeIdle ==
    /\ has_pv = FALSE
    /\ pipe_call = None
    /\ printed = None
    /\ executed = None

\* no walk asked for
WalkIdle ==
    /\ walk_op = "none"
    /\ walk_pc = "idle"
    /\ current_snap = NoName
    /\ restore_list = <<>>
    /\ walk_outcome = "none"
    /\ frames = <<>>
    /\ frame_result = None

\* no earlier run
RerunIdle == first_run = None

UtilIdle == SizeIdle /\ CatalogIdle /\ PipeIdle /\ WalkIdle /\ RerunIdle

Init == UploadInit /\ SnapIdle /\ UtilIdle

\* main_loop: _begin_upload() and _start_workers(): the multipart upload is
\* initiated and `concurrency` worker threads start, each blocking in inbox.get()
BeginUpload ==
    /\ pc = "start"
    /\ wstate' = [w \in DOMAIN wstate |-> IF w \in Workers THEN "idle" ELSE wstate[w]]
    /\ pc' = "test"
    /\ UNCHANGED <<stream, pos, chunk_size, partial_chunk, eof_reached, concurrency,
                   chunk_index, cur, pending_chunks, results, outbox, inbox, outcome,
                   returned, wjob, attempt, calls, submitted, store, sent>>
    /\ UNCHANGED <<snap_vars, util_vars>>

\* a loop that stops at the end of the input, whatever is still pending
LoopIgnoresPending(pending, fin) == ~fin

\* main_loop's loop condition,
\* "self._pending_chunks or not self.stream_handler.finished"
LoopContinues(pending, fin) == pending # 0 \/ ~fin

\* main_loop: the while test; leaving the loop leads to _finish_upload
LoopTest ==
    /\ pc = "test"
    /\ pc' = IF LoopContinues(pending_chunks, finished) THEN "check" ELSE "finish"
    /\ UNCHANGED <<stream, pos, chunk_size, partial_chunk, eof_reached, concurrency,
                   chunk_index, cur, pending_chunks, results, outbox, inbox, outcome,
                   returned, wstate, wjob, attempt, calls, submitted, store, sent>>
    /\ UNCHANGED <<snap_vars, util_vars>>

\* _check_workers: raise WorkerCrashed if a worker thread is not alive; the
\* exception leaves main_loop, which has no handler
CheckWorkers ==
    /\ pc = "check"
    /\ IF \E w \in Workers : wstate[w] = "dead"
       THEN pc' = "done" /\ outcome' = "WorkerCrashed"
       ELSE pc' = "drain" /\ outcome' = outcome
    /\ UNCHANGED <<stream, pos, chunk_size, partial_chunk, eof_reached, concurrency,
                   chunk_index, cur, pending_chunks, results, outbox, inbox,
                   returned, wstate, wjob, attempt, calls, submitted, store, sent>>
    /\ UNCHANGED <<snap_vars, util_vars>>

\* a counter that one result clears
ResultClearsPending(pending) == 0

\* _handle_result: "self._pending_chunks -= 1"
ResultCounted(pending) == pending - 1

\* _handle_results / _handle_result: while the result queue is not empty, take
\* one result, record it and decrement the pending counter
HandleResult ==
    /\ pc = "drain"
    /\ inbox # <<>>
    /\ results' = Append(results, <<Head(inbox).index, Head(inbox).md5, Head(inbox).etag>>)
    /\ pending_chunks' = ResultCounted(pending_chunks)
    /\ inbox' = Tail(inbox)
    /\ UNCHANGED <<stream, pos, chunk_size, partial_chunk, eof_reached, concurrency, pc,
                   chunk_index, cur, outbox, outcome,
                   returned, wstate, wjob, attempt, calls, submitted, store, sent>>
    /\ UNCHANGED <<snap_vars, util_vars>>

\* _handle_results: the result queue is empty, go on to get_chunk
DrainDone ==
    /\ pc = "drain"
    /\ inbox = <<>>
    /\ pc' = "read"
    /\ UNCHANGED <<stream, pos, chunk_size, partial_chunk, eof_reached, concurrency,
                   chunk_index, cur, pending_chunks, results, outbox, inbox, outcome,
                   returned, wstate, wjob, attempt, calls, submitted, store, sent>>
    /\ UNCHANGED <<snap_vars, util_vars>>

\* main_loop after get_chunk returned `chunk`: a truthy chunk gets the next
\* index and enters _send_chunk (the pending counter goes up before the put)
Dispatch(chunk) ==
    IF ShouldSend(chunk)
    THEN /\ chunk_index' = chunk_index + 1
         /\ pending_chunks' = pending_chunks + 1
         /\ cur' = <<chunk_index + 1, chunk>>
         /\ pc' = "put"
    ELSE /\ pc' = "test"
         /\ UNCHANGED <<chunk_index, pending_chunks, cur>>

\* get_chunk after end of stream: the while loop is skipped and None returned
GetChunkNone ==
    /\ pc = "read"
    /\ eof_reached
    /\ Dispatch(None)
    /\ UNCHANGED <<stream, pos, chunk_size, partial_chunk, eof_reached, concurrency,
                   results, outbox, inbox, outcome,
                   returned, wstate, wjob, attempt, calls, submitted, store, sent>>
    /\ UNCHANGED <<snap_vars, util_vars>>

\* get_chunk: one pass of its loop, one input_stream.read of up to
\* chunk_size - len(_partial_chunk) bytes, which returns k of them
ReadStep(k) ==
    /\ pc = "read"
    /\ ~eof_reached
    /\ k \in ReadLens(chunk_size - Len(partial_chunk), Len(stream) - pos)
    /\ LET eof == (k = 0)
           buffered == partial_chunk \o SubSeq(stream, pos + 1, pos + k)
       IN /\ pos' = pos + k
          /\ eof_reached' = eof
          /\ IF ChunkComplete(buffered, eof)
             THEN partial_chunk' = <<>> /\ Dispatch(buffered)
             ELSE /\ partial_chunk' = buffered
                  /\ UNCHANGED <<pc, chunk_index, pending_chunks, cur>>
    /\ UNCHANGED <<stream, chunk_size, concurrency, results, outbox, inbox, outcome,
                   returned, wstate, wjob, attempt, calls, submitted, store, sent>>
    /\ UNCHANGED <<snap_vars, util_vars>>

\* get_chunk: the input's read raises; nothing in get_chunk or main_loop
\* catches it
ReadRaises ==
    /\ pc = "read"
    /\ ~eof_reached
    /\ pc' = "done"
    /\ outcome' = "ReadError"
    /\ UNCHANGED <<stream, pos, chunk_size, partial_chunk, eof_reached, concurrency,
                   chunk_index, cur, pending_chunks, results, outbox, inbox,
                   returned, wstate, wjob, attempt, calls, submitted, store, sent>>
    /\ UNCHANGED <<snap_vars, util_vars>>

\* _send_chunk: self.outbox.put((index, chunk)), which blocks while the job
\* queue is full
SendChunk ==
    /\ pc = "put"
    /\ Len(outbox) < QueueCap(concurrency)
    /\ outbox' = Append(outbox, cur)
    /\ sent' = Append(sent, cur)
    /\ cur' = None
    /\ pc' = "test"
    /\ UNCHANGED <<stream, pos, chunk_size, partial_chunk, eof_reached, concurrency,
                   chunk_index, pending_chunks, results, inbox, outcome,
                   returned, wstate, wjob, attempt, calls, submitted, store>>
    /\ UNCHANGED <<snap_vars, util_vars>>

\* _finish_upload: abort and raise UploadException when there is no result,
\* else complete with the parts sorted by PartNumber
FinishUpload ==
    /\ pc = "finish"
    /\ IF NoPartsProduced(results)
       THEN /\ calls' = Append(calls, "abort")
            /\ outcome' = "UploadException"
            /\ pc' = "done"
            /\ UNCHANGED submitted
       ELSE /\ calls' = Append(calls, "complete")
            /\ submitted' = SortedParts(results)
            /\ pc' = "etag"
            /\ UNCHANGED outcome
    /\ UNCHANGED <<stream, pos, chunk_size, partial_chunk, eof_reached, concurrency,
                   chunk_index, cur, pending_chunks, results, outbox, inbox,
                   returned, wstate, wjob, attempt, store, sent>>
    /\ UNCHANGED <<snap_vars, util_vars>>

\* main_loop: self.results.sort(); return multipart_etag(r[1] for r in results)
ReturnEtag ==
    /\ pc = "etag"
    /\ results' = SortedResults(results)
    /\ returned' = LET rs == SortedResults(results)
                   IN multipart_etag([i \in 1..Len(rs) |-> rs[i][2]])
    /\ outcome' = "returned"
    /\ pc' = "done"
    /\ UNCHANGED <<stream, pos, chunk_size, partial_chunk, eof_reached, concurrency,
                   chunk_index, cur, pending_chunks, outbox, inbox,
                   wstate, wjob, attempt, calls, submitted, store, sent>>
    /\ UNCHANGED <<snap_vars, util_vars>>

\* UploadWorker.main_loop: index, chunk = self.inbox.get(), then upload_part
\* is entered and retry starts with attempt 1
WorkerGet(w) ==
    /\ wstate[w] = "idle"
    /\ outbox # <<>>
    /\ wjob' = [wjob EXCEPT ![w] = Head(outbox)]
    /\ outbox' = Tail(outbox)
    /\ wstate' = [wstate EXCEPT ![w] = "uploading"]
    /\ attempt' = [attempt EXCEPT ![w] = 1]
    /\ UNCHANGED <<stream, pos, chunk_size, partial_chunk, eof_reached, concurrency, pc,
                   chunk_index, cur, pending_chunks, results, inbox, outcome,
                   returned, calls, submitted, store, sent>>
    /\ UNCHANGED <<snap_vars, util_vars>>

\* retry / upload_part: one attempt at part.upload.  A 200 publishes the
\* Result and the worker goes back to inbox.get(); a raised exception and a
\* non-200 status (UploadException) are both caught by retry's bare except,
\* which raises out of the thread once the attempts are used up
UploadPartAttempt(w, r) ==
    /\ wstate[w] = "uploading"
    /\ r \in AttemptOutcomes
    /\ IF r = "ok"
       THEN /\ store' = store \cup {[PartNumber |-> wjob[w][1], ETag |-> StoreETag(wjob[w][2])]}
            /\ inbox' = Append(inbox, [success |-> TRUE,
                                       index |-> wjob[w][1],
                                       md5 |-> HexDigest(MD5(wjob[w][2])),
                                       etag |-> StoreETag(wjob[w][2])])
            /\ wstate' = [wstate EXCEPT ![w] = "idle"]
            /\ wjob' = [wjob EXCEPT ![w] = None]
            /\ attempt' = [attempt EXCEPT ![w] = 0]
       ELSE /\ IF RetriesExhausted(attempt[w], MAX_RETRIES)
               THEN wstate' = [wstate EXCEPT ![w] = "dead"] /\ UNCHANGED attempt
               ELSE attempt' = [attempt EXCEPT ![w] = attempt[w] + 1] /\ UNCHANGED wstate
            /\ UNCHANGED <<store, inbox, wjob>>
    /\ UNCHANGED <<stream, pos, chunk_size, partial_chunk, eof_reached, concurrency, pc,
                   chunk_index, cur, pending_chunks, results, outbox, outcome,
                   returned, calls, submitted, sent>>
    /\ UNCHANGED <<snap_vars, util_vars>>

Coordinator ==
    \/ BeginUpload
    \/ LoopTest
    \/ CheckWorkers
    \/ HandleResult
    \/ DrainDone
    \/ GetChunkNone
    \/ \E k \in 0..MaxChunkSize : ReadStep(k)
    \/ ReadRaises
    \/ SendChunk
    \/ FinishUpload
    \/ ReturnEtag

Worker(w) ==
    \/ WorkerGet(w)
    \/ \E r \in AttemptOutcomes : UploadPartAttempt(w, r)

Next ==
    \/ BeginUpload
    \/ LoopTest
    \/ CheckWorkers
    \/ HandleResult
    \/ DrainDone
    \/ GetChunkNone
    \/ \E k \in 0..MaxChunkSize : ReadStep(k)
    \/ ReadRaises
    \/ SendChunk
    \/ FinishUpload
    \/ ReturnEtag
    \/ \E w \in Workers : WorkerGet(w)
    \/ \E w \in Workers, r \in AttemptOutcomes : UploadPartAttempt(w, r)

Spec == Init /\ [][Next]_vars

\* the coordinator and every worker are threads the interpreter keeps
\* scheduling: none is starved while it can take a step
FairSpec ==
    /\ Init
    /\ [][Next]_vars
    /\ WF_vars(Coordinator)
    /\ \A w \in 1..MaxConcurrency : WF_vars(Worker(w))

\* ------------------------------------------------ uploader properties
Range(s) == {s[i] : i \in 1..Len(s)}

SomeWorkerDead == \E w \in 1..MaxConcurrency : wstate[w] = "dead"

\* C1: once the multipart upload was initiated, a run of main_loop that has
\* ended (returned or raised) has called exactly one of Complete and Abort on
\* the upload.
C1_ExactlyOneCompleteOrAbort ==
    pc = "done" => Len(calls) = 1 /\ calls[1] \in {"complete", "abort"}

\* C2: a run that ends in WorkerCrashed has called Abort on the upload before
\* the raise, and never Complete.
C2_WorkerCrashedAbortsFirst ==
    outcome = "WorkerCrashed" => "abort" \in Range(calls) /\ "complete" \notin Range(calls)

\* C3: whenever a worker has died, the coordinator eventually detects it and
\* raises WorkerCrashed (unless the input reader's own error ended the run
\* first): the run never hangs with a dead worker.
C3_DeadWorkerDetected ==
    SomeWorkerDead ~> (outcome = "WorkerCrashed" \/ outcome = "ReadError")

\* C22: when reading the next chunk raises while the multipart upload is in
\* progress, the error leaves main_loop with the upload aborted first.
C22_ReadErrorAborts ==
    outcome = "ReadError" => "abort" \in Range(calls)

\* C22, what the code does: the read is not retried and its error leaves
\* main_loop with neither Abort nor Complete called on the upload.
C22_ReadErrorLeavesUploadOpen ==
    outcome = "ReadError" => calls = <<>> /\ pc = "done"

\* the recorded results that carry part index i
ResultsWithIndex(i) == {j \in 1..Len(results) : results[j][1] = i}

\* C26: whenever Complete is called, every chunk index 1..n that was read and
\* enqueued has exactly one recorded successful result and the pending
\* counter is 0; a run in which a worker died never reaches Complete.
C26_CompleteOnFullSet ==
    "complete" \in Range(calls) =>
        /\ pending_chunks = 0
        /\ cur = None
        /\ \A i \in 1..Len(sent) : sent[i][1] = i
        /\ chunk_index = Len(sent)
        /\ \A i \in 1..chunk_index : Cardinality(ResultsWithIndex(i)) = 1
        /\ Len(results) = chunk_index
        /\ ~SomeWorkerDead

\* Complete was just called for two parts whose results arrived out of order
C26_Witness ==
    /\ pc = "etag"
    /\ calls = <<"complete">>
    /\ Len(sent) >= 2
    /\ results[1][1] > results[2][1]

\* C27: for a finite non-empty input whose reads do not fail and workers whose
\* every job succeeds within MAX_RETRIES attempts, under fair scheduling of
\* the coordinator and the workers main_loop eventually calls Complete and
\* returns, for every concurrency from 1 to MaxConcurrency.
\* (a run that never loses a worker and never fails a read ends so: written
\* as one eventuality, a fair run loses a worker, fails a read, or ends so)
C27_UploadTerminates ==
    Len(stream) > 0 =>
        <>(\/ SomeWorkerDead
           \/ outcome = "ReadError"
           \/ calls = <<"complete">> /\ outcome = "returned" /\ pc = "done")

\* main_loop returned after two workers uploaded more parts than the job
\* queue holds, with no worker lost
C27_Witness ==
    /\ outcome = "returned"
    /\ calls = <<"complete">>
    /\ concurrency = 2
    /\ Len(sent) > QueueCap(concurrency)
    /\ ~SomeWorkerDead

\* C28: once the coordinator has called Complete or Abort on the upload, no
\* worker starts or is still running an UploadPart against it: no worker is
\* inside upload_part, no job waits in the job queue and none is being put.
C28_NoUploadAfterClose ==
    calls # <<>> =>
        /\ \A w \in Workers : wstate[w] # "uploading"
        /\ outbox = <<>>
        /\ cur = None

\* the upload was closed after two parts were uploaded with two workers running
C28_Witness ==
    /\ calls # <<>>
    /\ concurrency = 2
    /\ \E i, j \in 1..Len(results) : i # j
    /\ \A w \in Workers : wstate[w] = "idle"

SentChunks == [i \in 1..Len(sent) |-> sent[i][2]]

\* the bytes taken from the input that are not on the job queue's log yet:
\* the chunk _send_chunk is still putting, then the buffered partial chunk
NotYetSent == (IF cur = None THEN <<>> ELSE cur[2]) \o partial_chunk

\* C4: the enqueued chunks carry the indices 1..n in order; together with
\* what is still buffered they are exactly the bytes read so far, and the
\* whole stream once end of stream was seen and the last chunk enqueued;
\* every chunk is chunk_size long but possibly the last, none is empty.
C4_ChunkingLosslessOrdered ==
    /\ \A i \in 1..Len(sent) : sent[i][1] = i
    /\ Concat(SentChunks) \o NotYetSent = SubSeq(stream, 1, pos)
    /\ (eof_reached /\ cur = None) => Concat(SentChunks) = stream
    /\ \A i \in 1..Len(sent) : Len(sent[i][2]) \in 1..chunk_size
    /\ \A i \in 1..Len(sent) - 1 : Len(sent[i][2]) = chunk_size
    /\ cur # None => Len(cur[2]) \in 1..chunk_size /\ cur[1] = Len(sent) + 1

\* a stream whose length is an exact multiple of the chunk size was read to
\* its end and cut into two full chunks, both enqueued
C4_Witness ==
    /\ eof_reached
    /\ pc = "test"
    /\ chunk_size = 2
    /\ Len(stream) = 4
    /\ Len(sent) = 2
    /\ cur = None

\* C5: the Parts list handed to Complete is strictly ascending by part
\* number and each part carries the ETag the store answered for that number.
C5_PartsSortedWithStoreEtags ==
    submitted # None =>
        /\ \A i, j \in 1..Len(submitted) :
              i < j => submitted[i].PartNumber < submitted[j].PartNumber
        /\ \A i \in 1..Len(submitted) : submitted[i] \in store
        /\ \A i \in 1..Len(submitted) :
              \A p \in store : p.PartNumber = submitted[i].PartNumber => p = submitted[i]

\* Complete was called with the results having arrived in the order 2, 3, 1
C5_Witness ==
    /\ pc = "etag"
    /\ Len(results) = 3
    /\ results[1][1] = 2
    /\ results[2][1] = 3
    /\ results[3][1] = 1

\* the chunks of the stream, from the stream and the chunk size alone
NumChunks == (Len(stream) + chunk_size - 1) \div chunk_size
ExpectedChunk(i) ==
    SubSeq(stream, (i - 1) * chunk_size + 1, Min(i * chunk_size, Len(stream)))
ExpectedEtag ==
    LET hex == [i \in 1..NumChunks |-> HexDigest(MD5(ExpectedChunk(i)))]
        raw == Concat([i \in 1..NumChunks |-> <<hex[i][1] * 16 + hex[i][2]>>])
    IN <<HexDigest(MD5(raw)), NumChunks>>

\* C6: the value main_loop returns is a function of the chunk sequence alone:
\* the md5 over the parts' raw md5 digests in ascending index order, with
\* the number of chunks read as its count, whatever the concurrency, the
\* scheduling and the order the results arrived in.
C6_EtagDeterministic ==
    outcome = "returned" =>
        /\ returned = ExpectedEtag
        /\ returned[2] = chunk_index

\* a three part upload by two workers returned its etag
C6_Witness ==
    /\ outcome = "returned"
    /\ concurrency = 2
    /\ chunk_index = 3
    /\ returned[2] = 3

\* jobs put on the queue and not finished by a worker: waiting in the queue
\* or held by a worker
InFlight ==
    Len(outbox) + Cardinality({w \in Workers : wstate[w] \in {"uploading", "dead"}})

\* C7: the number of in-flight jobs never exceeds 2 x concurrency.
C7_BackpressureBound == InFlight <= 2 * concurrency

\* the bound is met: a full queue and every worker holding a job
C7_Witness ==
    /\ concurrency = 2
    /\ InFlight = 2 * concurrency
    /\ Len(outbox) = concurrency
    /\ \A w \in Workers : wstate[w] = "uploading"

\* C8: with an empty input stream nothing is enqueued or uploaded, Complete
\* is never called and no etag returned, and the run that saw the end of the
\* stream ends in UploadException after exactly one Abort.
C8_ZeroByteInput ==
    stream = <<>> =>
        /\ sent = <<>> /\ store = {} /\ cur = None /\ chunk_index = 0
        /\ "complete" \notin Range(calls)
        /\ outcome # "returned" /\ returned = None
        /\ (pc = "done" /\ eof_reached) => outcome = "UploadException" /\ calls = <<"abort">>

C8_Witness ==
    /\ stream = <<>>
    /\ pc = "done"
    /\ outcome = "UploadException"
    /\ calls = <<"abort">>

\* the results published for part i, handled by the coordinator or not yet
ResultsFor(i) ==
    Cardinality({k \in 1..Len(inbox) : inbox[k].index = i})
    + Cardinality({k \in 1..Len(results) : results[k][1] = i})

\* part i is waiting in the job queue or held by a worker (uploading or dead)
Unfinished(i) ==
    \/ \E k \in 1..Len(outbox) : outbox[k][1] = i
    \/ \E w \in Workers : wstate[w] \in {"uploading", "dead"} /\ wjob[w][1] = i

\* C9: a worker is never beyond attempt MAX_RETRIES of a job; a worker dies
\* only with all MAX_RETRIES attempts of its job used, and then no result for
\* that index was published; every job a worker finished has exactly one
\* result, published with the worker back at its queue, and every published
\* result is a success.
C9_PerPartRetry ==
    /\ \A w \in Workers :
          /\ wstate[w] = "uploading" => attempt[w] \in 1..MAX_RETRIES
          /\ wstate[w] = "dead" => attempt[w] = MAX_RETRIES /\ ResultsFor(wjob[w][1]) = 0
          /\ wstate[w] = "idle" => wjob[w] = None
    /\ \A i \in 1..Len(sent) : ResultsFor(i) = (IF Unfinished(i) THEN 0 ELSE 1)
    /\ \A k \in 1..Len(inbox) : inbox[k].success

\* one worker used up its retries and died while the other one's part, on
\* its last attempt, is about to succeed or fail
C9_Witness ==
    /\ \E w \in Workers : wstate[w] = "dead"
    /\ \E w \in Workers : wstate[w] = "uploading" /\ attempt[w] = MAX_RETRIES
    /\ results # <<>>

\* ------------------------------------------------- snapshot subsystem
Names == 1..NumSnaps

\* S3Snapshot._metadata, as far as snap.py reads it: isfull / is_full = 'true',
\* and parent (a name, which need not be in the catalog, or absent)
Metadata == [isfull : BOOLEAN, parent : Names \cup {NoName}]

\* COMPRESSORS: the labels the program knows, each with its decompress command
COMPRESSORS ==
    [l \in {"pigz1", "pigz4"} |->
        [compress |-> IF l = "pigz1" THEN "pigz -1 --blocksize 4096"
                      ELSE "pigz -4 --blocksize 4096",
         decompress |-> "pigz -d"]]

\* a snapshot without 'compressor' metadata, and a pipeline stage left out
NoLabel == "absent"
NoCommand == ""

\* the values the 'compressor' metadata takes: absent, the known labels, and
\* one label COMPRESSORS does not know
Labels == {NoLabel, "pigz1", "pigz4", "lz4"}

\* the dataset the snapshots belong to: snapshot n is named "D@<n>"
Dataset == "D"

\* Python 3 text and byte strings: values of different types, never equal
Str(text) == [type |-> "str", text |-> text]
Bytes(text) == [type |-> "bytes", text |-> text]

\* S3SnapshotManager.get(name): the snapshot, or None
S3Has(name) == name \in DOMAIN remote

\* S3Snapshot.is_full
is_full(n) == remote[n].isfull

\* S3Snapshot.parent_name
parent_name(n) == remote[n].parent

\* S3Snapshot._is_healthy(visited)
RECURSIVE IsHealthyFrom(_, _)
IsHealthyFrom(n, visited) ==
    IF is_full(n) THEN TRUE
    ELSE IF n \in visited THEN FALSE
    ELSE IF ~S3Has(parent_name(n)) THEN FALSE
    ELSE IsHealthyFrom(parent_name(n), visited \cup {n})

\* S3Snapshot.is_healthy
is_healthy(n) == IsHealthyFrom(n, {})

\* S3Snapshot.CYCLE, MISSING_PARENT, PARENT_BROKEN, and the None that
\* __init__ stores in _reason_broken
CYCLE == "cycle detected"
MISSING_PARENT == "missing parent"
PARENT_BROKEN == "parent broken"
NoReason == "None"

\* a partial map with one entry set (setattr on one snapshot object)
Put(f, n, v) == [x \in DOMAIN f \cup {n} |-> IF x = n THEN v ELSE f[x]]

\* a chain that runs into a cycle reported as a broken parent
ReasonForgetsCycle(parent_reason) == PARENT_BROKEN

\* the parent's reason handed down unchanged
ReasonCopiesParent(parent_reason) == parent_reason

\* _is_healthy, lines 101-105: the reason a snapshot stores when its parent
\* turned out unhealthy
ReasonFromParent(parent_reason) ==
    IF parent_reason = CYCLE THEN CYCLE ELSE PARENT_BROKEN

\* _is_healthy looking at is_full only after the cycle and parent tests
RECURSIVE IsHealthyRunFullLast(_, _, _)
IsHealthyRunFullLast(n, visited, rs) ==
    IF n \in visited
    THEN [ok |-> FALSE, reason |-> [rs EXCEPT ![n] = CYCLE]]
    ELSE IF ~S3Has(parent_name(n))
         THEN IF is_full(n) THEN [ok |-> TRUE, reason |-> rs]
              ELSE [ok |-> FALSE, reason |-> [rs EXCEPT ![n] = MISSING_PARENT]]
    ELSE LET r == IsHealthyRunFullLast(parent_name(n), visited \cup {n}, rs)
         IN IF ~r.ok
            THEN [ok |-> FALSE,
                  reason |-> [r.reason EXCEPT
                                 ![n] = ReasonFromParent(r.reason[parent_name(n)])]]
            ELSE [ok |-> TRUE, reason |-> r.reason]

\* S3Snapshot._is_healthy(visited) with its writes to _reason_broken: rs is
\* the _reason_broken of every snapshot before the call, the result carries
\* the return value and the _reason_broken of every snapshot after it
RECURSIVE IsHealthyRun(_, _, _)
IsHealthyRun(n, visited, rs) ==
    IF is_full(n) THEN [ok |-> TRUE, reason |-> rs]
    ELSE IF n \in visited
         THEN [ok |-> FALSE, reason |-> [rs EXCEPT ![n] = CYCLE]]
    ELSE IF ~S3Has(parent_name(n))
         THEN [ok |-> FALSE, reason |-> [rs EXCEPT ![n] = MISSING_PARENT]]
    ELSE LET r == IsHealthyRun(parent_name(n), visited \cup {n}, rs)
         IN IF ~r.ok
            THEN [ok |-> FALSE,
                  reason |-> [r.reason EXCEPT
                                 ![n] = ReasonFromParent(r.reason[parent_name(n)])]]
            ELSE [ok |-> TRUE, reason |-> r.reason]

\* the is_healthy property under @cached: computed by _is_healthy() the first
\* time and stored on the snapshot, read back from there afterwards
IsHealthyGet(n, cache, rs) ==
    IF n \in DOMAIN cache
    THEN [value |-> cache[n], cache |-> cache, reason |-> rs]
    ELSE LET r == IsHealthyRun(n, {}, rs)
         IN [value |-> r.ok, cache |-> Put(cache, n, r.ok), reason |-> r.reason]

\* reason_broken handing out _reason_broken without asking is_healthy first
ReasonBrokenStored(n, cache, rs) ==
    [value |-> rs[n], cache |-> cache, reason |-> rs]

\* the reason_broken property: None for a healthy snapshot, else whatever
\* _reason_broken holds
ReasonBrokenGet(n, cache, rs) ==
    LET h == IsHealthyGet(n, cache, rs)
    IN [value |-> IF h.value THEN NoReason ELSE h.reason[n],
        cache |-> h.cache, reason |-> h.reason]

\* is_healthy read on each snapshot of a list in turn
RECURSIVE CheckAll(_, _, _)
CheckAll(ns, cache, rs) ==
    IF ns = <<>> THEN [cache |-> cache, reason |-> rs]
    ELSE LET h == IsHealthyGet(Head(ns), cache, rs)
         IN CheckAll(Tail(ns), h.cache, h.reason)

\* ZFSSnapshotManager.get(name): the snapshot, or None
ZfsHas(name) == \E i \in 1..Len(locals) : locals[i] = name

\* ZFSSnapshot.parent, as _build_snapshots links it: the entry listed just
\* before, None for the first
LocalParent(name) ==
    LET i == CHOOSE k \in 1..Len(locals) : locals[k] = name
    IN IF i = 1 THEN NoName ELSE locals[i - 1]

\* an upload command that always says isfull=true
PputMetaAlwaysFull(parent) == [isfull |-> TRUE, parent |-> parent]

\* _pput_cmd: the --meta arguments of the upload command
PputMeta(parent) ==
    IF parent = NoName
    THEN [isfull |-> TRUE, parent |-> NoName]
    ELSE [isfull |-> FALSE, parent |-> parent]

\* the walk ending at a snapshot found remotely without looking at its health
WalkAtRemoteUnchecked(current, acc) ==
    [error |-> "none", to_upload |-> acc, checked |-> <<>>]

\* a walk that collects the snapshot it found remotely as well
WalkAtRemoteCollects(current, acc) ==
    [error |-> "none", to_upload |-> Append(acc, current), checked |-> <<>>]

\* backup_incremental: what the walk does at a snapshot found remotely
WalkAtRemote(current, acc) ==
    IF ~is_healthy(current)
    THEN [error |-> "IntegrityError", to_upload |-> acc, checked |-> <<current>>]
    ELSE [error |-> "none", to_upload |-> acc, checked |-> <<current>>]

\* backup_incremental: the "while True" walk from the target toward older
\* locals, collecting the ones that are not in the remote catalog
RECURSIVE BackupWalk(_, _)
BackupWalk(current, acc) ==
    IF S3Has(current) THEN WalkAtRemote(current, acc)
    ELSE IF LocalParent(current) = NoName
         THEN [error |-> "none", to_upload |-> Append(acc, current), checked |-> <<>>]
         ELSE BackupWalk(LocalParent(current), Append(acc, current))

\* a list taken in the order it was built
Unreversed(s) == s

\* reversed(to_upload), reversed(to_restore)
Reverse(s) == [i \in 1..Len(s) |-> s[Len(s) + 1 - i]]

\* backup_incremental: the "for z_snap in reversed(to_upload)" loop.  Building
\* the dry-send command reads z_snap.parent.name, an AttributeError when the
\* parent is None; else the dry-send runs, then the send | upload pipeline
RECURSIVE UploadLoop(_, _)
UploadLoop(todo, done) ==
    IF todo = <<>> THEN [error |-> "none", cmds |-> done]
    ELSE LET z == Head(todo)
             parent == LocalParent(z)
         IN IF parent = NoName
            THEN [error |-> "AttributeError", cmds |-> done]
            ELSE UploadLoop(Tail(todo),
                     done \o <<[call |-> "shell", cmd |-> "dry_send", from |-> parent, snap |-> z],
                               [call |-> "pipe", cmd |-> "send", from |-> parent, snap |-> z,
                                meta |-> PputMeta(parent)]>>)

\* the uploader at rest
UploadIdle ==
    /\ stream = <<>>
    /\ pos = 0
    /\ chunk_size = 1
    /\ partial_chunk = <<>>
    /\ eof_reached = FALSE
    /\ concurrency = 1
    /\ pc = "idle"
    /\ chunk_index = 0
    /\ cur = None
    /\ pending_chunks = 0
    /\ results = <<>>
    /\ outbox = <<>>
    /\ inbox = <<>>
    /\ outcome = "running"
    /\ returned = None
    /\ wstate = [w \in 1..MaxConcurrency |-> "unstarted"]
    /\ wjob = [w \in 1..MaxConcurrency |-> None]
    /\ attempt = [w \in 1..MaxConcurrency |-> 0]
    /\ calls = <<>>
    /\ submitted = None
    /\ store = {}
    /\ sent = <<>>

\* Both catalogs loaded.  The local snapshots are the names 1..k in listing
\* order (names are labels: any local catalog is this one renamed); the
\* remote catalog is any map from some of the names to metadata.  The dataset
\* is listed by `zfs list` whenever it has snapshots, and may be without any.
SnapInit ==
    /\ locals \in {[i \in 1..k |-> i] : k \in 0..NumSnaps}
    /\ remote \in UNION {[S -> Metadata] : S \in SUBSET Names}
    /\ op = "none"
    /\ target = NoName
    /\ cmds = <<>>
    /\ snap_outcome = "none"
    /\ force = FALSE
    /\ zfs_list \in {L \in SUBSET {Dataset} : Len(locals) > 0 => Dataset \in L}
    /\ is_healthy_cached_value = <<>>
    /\ stored_reason = [n \in DOMAIN remote |-> NoReason]
    /\ reported = <<>>
    /\ pairs = <<>>
    /\ compressor = [n \in DOMAIN remote |-> NoLabel]

\* _snapshot_to_backup(snap_name): the latest local for None (SoftError when
\* there is none), else the named local (Exception when there is none)
SnapshotToBackup(snap_name) ==
    IF snap_name = NoName
    THEN IF Len(locals) = 0 THEN [error |-> "SoftError", snap |-> NoName]
         ELSE [error |-> "none", snap |-> locals[Len(locals)]]
    ELSE IF ~ZfsHas(snap_name) THEN [error |-> "Exception", snap |-> NoName]
         ELSE [error |-> "none", snap |-> snap_name]

\* the walks read is_healthy (the cached property) on the snapshots in ns
MemoAfter(ns) ==
    LET m == CheckAll(ns, is_healthy_cached_value, stored_reason)
    IN /\ is_healthy_cached_value' = m.cache
       /\ stored_reason' = m.reason
       /\ reported' = reported

\* PairManager.backup_incremental(snap_name)
BackupIncremental(snap_name) ==
    /\ op = "none"
    /\ op' = "backup_incremental"
    /\ LET z == SnapshotToBackup(snap_name)
       IN IF z.error # "none"
          THEN /\ snap_outcome' = z.error
               /\ target' = NoName
               /\ cmds' = cmds
               /\ MemoAfter(<<>>)
          ELSE LET walk == BackupWalk(z.snap, <<>>)
               IN /\ target' = z.snap
                  /\ MemoAfter(walk.checked)
                  /\ IF walk.error # "none"
                     THEN snap_outcome' = walk.error /\ cmds' = cmds
                     ELSE LET run == UploadLoop(Reverse(walk.to_upload), cmds)
                          IN /\ cmds' = run.cmds
                             /\ snap_outcome' = IF run.error = "none" THEN "returned"
                                                ELSE run.error
    /\ UNCHANGED <<locals, remote, force, zfs_list, pairs, compressor>>
    /\ UNCHANGED <<upload_vars, util_vars>>

\* ZFSSnapshotManager.datasets(): the rows of `zfs list`, parsed from the
\* bytes check_output returns and never decoded; the b'name' column
datasets == {Bytes(d) : d \in zfs_list}

\* ZFSSnapshotManager.dataset_exists(dataset): "dataset in [names]", Python's
\* equality between the argument and each listed name
dataset_exists(dataset) == dataset \in datasets

\* the walk collecting an unhealthy snapshot and ending there without raising
RECURSIVE RestoreWalkUnchecked(_, _)
RestoreWalkUnchecked(current, acc) ==
    IF ZfsHas(current)
    THEN [error |-> "none", to_restore |-> acc, checked |-> acc]
    ELSE IF ~is_healthy(current) \/ is_full(current)
    THEN [error |-> "none", to_restore |-> Append(acc, current),
          checked |-> Append(acc, current)]
    ELSE RestoreWalkUnchecked(parent_name(current), Append(acc, current))

\* restore: the "while True" walk from the target along parent links.  A
\* snapshot that exists locally ends the walk; one that does not is checked
\* for health, collected, and the walk ends after a full one.  checked lists
\* the snapshots whose is_healthy the walk read, in order.
RECURSIVE RestoreWalk(_, _)
RestoreWalk(current, acc) ==
    IF ZfsHas(current)
    THEN [error |-> "none", to_restore |-> acc, checked |-> acc]
    ELSE IF ~is_healthy(current)
    THEN [error |-> "IntegrityError", to_restore |-> acc,
          checked |-> Append(acc, current)]
    ELSE IF is_full(current)
    THEN [error |-> "none", to_restore |-> Append(acc, current),
          checked |-> Append(acc, current)]
    ELSE RestoreWalk(parent_name(current), Append(acc, current))

\* every pipeline decompressed as the target's metadata says
LabelOfTarget(s3_snap, leaf) == compressor[leaf]

\* restore passes s3_snap=s3_snap to _decompress: the label looked up is the
\* one of the snapshot the pipeline downloads
LabelConsulted(s3_snap, leaf) == compressor[s3_snap]

\* _decompress(cmd, s3_snap): COMPRESSORS.get(s3_snap.compressor), and the
\* decompress command put before cmd when the label is known
Decompress(s3_snap, leaf) ==
    LET label == LabelConsulted(s3_snap, leaf)
    IN IF label \in DOMAIN COMPRESSORS THEN COMPRESSORS[label].decompress
       ELSE NoCommand

\* the pipelines issued in the order the walk collected, target first
RecvPipesNewestFirst(to_restore, f) ==
    [i \in 1..Len(to_restore) |->
        [call |-> "pipe", cmd |-> "recv", snap |-> to_restore[i], F |-> f,
         decompress |-> Decompress(to_restore[i], to_restore[1])]]

\* restore: "for s3_snap in reversed(to_restore)", one download | decompress
\* | recv pipeline per collected snapshot; F is the -F flag of the recv
RecvPipes(to_restore, f) ==
    [i \in 1..Len(to_restore) |->
        [call |-> "pipe", cmd |-> "recv", snap |-> Reverse(to_restore)[i], F |-> f,
         decompress |-> Decompress(Reverse(to_restore)[i], to_restore[1])]]

\* PairManager.restore(snap_name, force); snap_name is the text
\* "<dataset>@<tag>" main() builds, so the dataset split off it is a str
Restore(snap_name, f) ==
    /\ op = "none"
    /\ op' = "restore"
    /\ target' = snap_name
    /\ force' = f
    /\ IF ~f /\ dataset_exists(Str(Dataset))
       THEN snap_outcome' = "DatasetExists" /\ cmds' = cmds /\ MemoAfter(<<>>)
       ELSE IF ~S3Has(snap_name)
       THEN snap_outcome' = "Exception" /\ cmds' = cmds /\ MemoAfter(<<>>)
       ELSE LET walk == RestoreWalk(snap_name, <<>>)
            IN /\ MemoAfter(walk.checked)
               /\ IF walk.error # "none"
                  THEN snap_outcome' = walk.error /\ cmds' = cmds
                  ELSE /\ cmds' = cmds \o RecvPipes(walk.to_restore, f = TRUE)
                       /\ snap_outcome' = "returned"
    /\ UNCHANGED <<locals, remote, zfs_list, pairs, compressor>>
    /\ UNCHANGED <<upload_vars, util_vars>>

\* PairManager.backup_full(snap_name): the dry-send of the snapshot, then
\* the send | upload pipeline with _pput_cmd's default parent=None
BackupFull(snap_name) ==
    /\ op = "none"
    /\ op' = "backup_full"
    /\ LET z == SnapshotToBackup(snap_name)
       IN IF z.error # "none"
          THEN /\ snap_outcome' = z.error
               /\ target' = NoName
               /\ cmds' = cmds
          ELSE /\ target' = z.snap
               /\ cmds' = cmds \o
                    <<[call |-> "shell", cmd |-> "dry_send", from |-> NoName, snap |-> z.snap],
                      [call |-> "pipe", cmd |-> "send", from |-> NoName, snap |-> z.snap,
                       meta |-> PputMeta(NoName)]>>
               /\ snap_outcome' = "returned"
    /\ UNCHANGED <<locals, remote, force, zfs_list, memo_vars, pairs,
                   compressor>>
    /\ UNCHANGED <<upload_vars, util_vars>>

SnapNext ==
    \/ \E n \in Names \cup {NoName} : BackupIncremental(n)
    \/ \E n \in Names \cup {NoName} : BackupFull(n)
    \/ \E n \in Names, f \in BOOLEAN : Restore(n, f)

SnapStart == SnapInit /\ UploadIdle /\ UtilIdle

\* reading snapshot.is_healthy (backup_incremental and restore do)
QueryIsHealthy(n) ==
    /\ n \in DOMAIN remote
    /\ LET h == IsHealthyGet(n, is_healthy_cached_value, stored_reason)
       IN /\ is_healthy_cached_value' = h.cache
          /\ stored_reason' = h.reason
    /\ UNCHANGED <<locals, remote, op, target, cmds, snap_outcome, force,
                   zfs_list, reported, pairs, compressor>>
    /\ UNCHANGED <<upload_vars, util_vars>>

\* reading snapshot.reason_broken (the status listing does, per snapshot)
QueryReasonBroken(n) ==
    /\ n \in DOMAIN remote
    /\ LET r == ReasonBrokenGet(n, is_healthy_cached_value, stored_reason)
       IN /\ is_healthy_cached_value' = r.cache
          /\ stored_reason' = r.reason
          /\ reported' = Put(reported, n, r.value)
    /\ UNCHANGED <<locals, remote, op, target, cmds, snap_outcome, force,
                   zfs_list, pairs, compressor>>
    /\ UNCHANGED <<upload_vars, util_vars>>

\* one S3SnapshotManager whose snapshots are queried in any order, any
\* number of times
LineageNext ==
    \/ \E n \in Names : QueryIsHealthy(n)
    \/ \E n \in Names : QueryReasonBroken(n)

\* restore, and nothing else, run on the catalogs of DecompressStart
DecompressNext ==
    \/ \E n \in Names, f \in BOOLEAN : Restore(n, f)

\* a healthy remote chain (a full snapshot and incrementals on top of it),
\* each member with any compressor label, and any number of its oldest
\* members present locally
DecompressStart ==
    /\ UploadIdle
    /\ UtilIdle
    /\ remote \in {[n \in 1..k |-> IF n = 1 THEN [isfull |-> TRUE, parent |-> NoName]
                                   ELSE [isfull |-> FALSE, parent |-> n - 1]] :
                       k \in 1..NumSnaps}
    /\ locals \in {[i \in 1..k |-> i] : k \in 0..NumSnaps}
    /\ compressor \in [DOMAIN remote -> Labels]
    /\ op = "none"
    /\ target = NoName
    /\ cmds = <<>>
    /\ snap_outcome = "none"
    /\ force = FALSE
    /\ zfs_list = IF Len(locals) > 0 THEN {Dataset} ELSE {}
    /\ is_healthy_cached_value = <<>>
    /\ stored_reason = [n \in DOMAIN remote |-> NoReason]
    /\ reported = <<>>
    /\ pairs = <<>>

DecompressSpec == DecompressStart /\ [][DecompressNext]_vars

LineageStart == SnapStart /\ locals = <<>> /\ zfs_list = {}

LineageSpec == LineageStart /\ [][LineageNext]_vars

SnapSpec == SnapStart /\ [][SnapNext]_vars

\* S3SnapshotManager.list(): the remote snapshots sorted by name
RECURSIVE SortedNames(_)
SortedNames(S) ==
    IF S = {} THEN <<>>
    ELSE LET m == CHOOSE x \in S : \A y \in S : x <= y
         IN <<m>> \o SortedNames(S \ {m})

\* every remote snapshot taken for unseen
NeverSeen(name, seen) == TRUE

\* list: "if s3_snap.name not in seen"
NotSeen(name, seen) == name \notin seen

\* PairManager.list(): a pair per local snapshot in ZFSSnapshotManager.list()
\* order, its remote side s3_manager.get(name); then a pair with no local
\* side per remote snapshot whose name was not seen
PairList ==
    LET seen == {locals[i] : i \in 1..Len(locals)}
        local_pairs == [i \in 1..Len(locals) |->
                           [s3 |-> IF S3Has(locals[i]) THEN locals[i] ELSE NoName,
                            z |-> locals[i]]]
        unseen == SelectSeq(SortedNames(DOMAIN remote), LAMBDA n : NotSeen(n, seen))
    IN local_pairs \o [i \in 1..Len(unseen) |-> [s3 |-> unseen[i], z |-> NoName]]

\* PairManager.list()
ListPairs ==
    /\ op = "none"
    /\ op' = "list"
    /\ pairs' = PairList
    /\ snap_outcome' = "returned"
    /\ UNCHANGED <<locals, remote, target, cmds, force, zfs_list, memo_vars,
                   compressor>>
    /\ UNCHANGED <<upload_vars, util_vars>>

ListNext ==
    \/ ListPairs

\* every sequence of distinct names
InjectiveSeqs ==
    {q \in UNION {[1..k -> Names] : k \in 0..NumSnaps} :
        \A i, j \in 1..Len(q) : i # j => q[i] # q[j]}

\* Both catalogs loaded, the local snapshots in any listing order
ListStart ==
    /\ UploadIdle
    /\ UtilIdle
    /\ locals \in InjectiveSeqs
    /\ remote \in UNION {[S -> Metadata] : S \in SUBSET Names}
    /\ op = "none"
    /\ target = NoName
    /\ cmds = <<>>
    /\ snap_outcome = "none"
    /\ force = FALSE
    /\ zfs_list = IF Len(locals) > 0 THEN {Dataset} ELSE {}
    /\ is_healthy_cached_value = <<>>
    /\ stored_reason = [n \in DOMAIN remote |-> NoReason]
    /\ reported = <<>>
    /\ pairs = <<>>
    /\ compressor = [n \in DOMAIN remote |-> NoLabel]

ListSpec == ListStart /\ [][ListNext]_vars

\* ------------------------------------------------ chunk size selection
\* sizes are kept exact as hundredths of a byte where the code has floats
\* the estimate taken as it is
NoOverestimate(e) == e * 100

\* "estimated = estimated * 1.05", in hundredths of a byte
Overestimate(e) == e * 105

\* the part size floor, "10*1024*1024"
MinPartSize == 10 * KiB * KiB

\* optimize_chunksize(estimated): int(max(estimated * 1.05 / max_parts,
\* 10*1024*1024)); int() truncates toward zero
optimize_chunksize(e) ==
    IF Overestimate(e) > MinPartSize * max_parts * 100
    THEN Overestimate(e) \div (max_parts * 100)
    ELSE MinPartSize

\* main(): chunk_size = optimize_chunksize(parse_size(args.estimated))
OptimizeChunksize ==
    /\ optimized = None
    /\ optimized' = <<optimize_chunksize(estimated)>>
    /\ UNCHANGED estimated
    /\ UNCHANGED <<upload_vars, snap_vars, catalog_vars, pipe_vars, walk_vars, rerun_vars>>

ChunkNext ==
    \/ OptimizeChunksize

\* pput started with --estimated E, for every E up to MaxEstimated
ChunkStart ==
    /\ UploadIdle
    /\ SnapIdle
    /\ CatalogIdle
    /\ PipeIdle
    /\ WalkIdle
    /\ RerunIdle
    /\ estimated \in 0..MaxEstimated
    /\ optimized = None

ChunkSpec == ChunkStart /\ [][ChunkNext]_vars

\* ------------------------------------------------ local catalog building
\* the longest snapshot tag and prefix, in characters
MaxTagLen == 2

\* snapshot tags and prefixes are texts over two characters
Texts == UNION {[1..k -> {"a", "b"}] : k \in 0..MaxTagLen}

\* str.startswith
StartsWith(text, prefix) ==
    /\ Len(prefix) <= Len(text)
    /\ SubSeq(text, 1, Len(prefix)) = prefix

\* a filtered-out snapshot remembered as the next one's parent
SkippedBecomesParent(snap_name, parent) == snap_name

\* _build_snapshots: "continue" on a tag without the prefix leaves parent as
\* it was
SkippedKeepsParent(snap_name, parent) == parent

\* _build_snapshots: the loop over the dataset's snapshots in listing order;
\* parent is the ZFSSnapshot kept last (None before the first)
RECURSIVE BuildLoop(_, _, _)
BuildLoop(fs_snaps, parent, snapshots) ==
    IF fs_snaps = <<>> THEN snapshots
    ELSE LET snap_name == Head(fs_snaps)
         IN IF ~StartsWith(snap_name, snapshot_prefix)
            THEN BuildLoop(Tail(fs_snaps), SkippedKeepsParent(snap_name, parent),
                           snapshots)
            ELSE BuildLoop(Tail(fs_snaps), snap_name,
                           Append(snapshots, [name |-> snap_name, parent |-> parent]))

\* ZFSSnapshotManager._build_snapshots(fs_name)
BuildSnapshots ==
    /\ built = None
    /\ listing # <<>>
    /\ built' = <<BuildLoop(listing, None, <<>>)>>
    /\ UNCHANGED <<listing, snapshot_prefix>>
    /\ UNCHANGED <<upload_vars, snap_vars, size_vars, pipe_vars, walk_vars, rerun_vars>>

CatalogNext ==
    \/ BuildSnapshots

\* a dataset with up to NumSnaps snapshots, distinct non-empty tags in any
\* listing order, and any prefix
CatalogStart ==
    /\ UploadIdle
    /\ SnapIdle
    /\ SizeIdle
    /\ PipeIdle
    /\ WalkIdle
    /\ RerunIdle
    /\ listing \in {q \in UNION {[1..k -> Texts \ {<<>>}] : k \in 1..NumSnaps} :
                       \A i, j \in 1..Len(q) : i # j => q[i] # q[j]}
    /\ snapshot_prefix \in Texts
    /\ built = None

CatalogSpec == CatalogStart /\ [][CatalogNext]_vars

\* ------------------------------------------------ one backup after another
\* the send | upload pipelines among the commands cs
SendPipes(cs) == SelectSeq(cs, LAMBDA c : c.call = "pipe" /\ c.cmd = "send")

\* S3SnapshotManager._snapshots after the uploads ps: every uploaded object
\* is listed under its name with the metadata its pput command gave it
RECURSIVE CatalogWith(_, _)
CatalogWith(rem, ps) ==
    IF ps = <<>> THEN rem
    ELSE CatalogWith(Put(rem, Head(ps).snap, Head(ps).meta), Tail(ps))

\* A backup_incremental returned, its uploads were stored, and the next
\* command starts: a new S3SnapshotManager lists the bucket, each S3Snapshot
\* is a new object with nothing cached and _reason_broken None
CatalogReloaded ==
    /\ first_run = None
    /\ op = "backup_incremental"
    /\ snap_outcome = "returned"
    /\ first_run' = <<[target |-> target, cmds |-> cmds]>>
    /\ remote' = CatalogWith(remote, SendPipes(cmds))
    /\ compressor' = [n \in DOMAIN remote' |->
                         IF n \in DOMAIN compressor THEN compressor[n] ELSE NoLabel]
    /\ is_healthy_cached_value' = <<>>
    /\ stored_reason' = [n \in DOMAIN remote' |-> NoReason]
    /\ reported' = <<>>
    /\ op' = "none"
    /\ target' = NoName
    /\ cmds' = <<>>
    /\ snap_outcome' = "none"
    /\ UNCHANGED <<locals, force, zfs_list, pairs>>
    /\ UNCHANGED <<upload_vars, size_vars, catalog_vars, pipe_vars, walk_vars>>

RerunNext ==
    \/ \E n \in Names \cup {NoName} : BackupIncremental(n)
    \/ CatalogReloaded

\* both catalogs loaded, nothing run yet
RerunStart ==
    /\ SnapStart
    /\ zfs_list = IF Len(locals) > 0 THEN {Dataset} ELSE {}

RerunSpec == RerunStart /\ [][RerunNext]_vars

\* ------------------------------------------ the chain walks, step by step
\* The same code as IsHealthyRun and RestoreWalk, taken one call, one return
\* and one loop pass at a time.
\* what the walks leave alone
walk_frame == <<locals, remote, op, target, cmds, snap_outcome, force, zfs_list,
                reported, pairs, compressor>>

Front(s) == SubSeq(s, 1, Len(s) - 1)

\* the `visited` argument of the executing frame: the snapshots of its callers
FrameVisited == {frames[i] : i \in 1..Len(frames) - 1}

\* a parent that is taken to be there whatever the catalog holds
ParentNeverNone(n) == FALSE

\* _is_healthy: "self.parent is None"
ParentIsNone(n) == ~S3Has(parent_name(n))

\* reading snapshot.is_healthy for the first time: the cached wrapper calls
\* _is_healthy() with the empty visited set
HealthBegin(n) ==
    /\ walk_pc = "idle"
    /\ n \in DOMAIN remote
    /\ walk_op' = "is_healthy"
    /\ current_snap' = n
    /\ frames' = <<n>>
    /\ walk_pc' = "health"
    /\ UNCHANGED <<restore_list, walk_outcome, frame_result>>
    /\ UNCHANGED <<walk_frame, memo_vars>>
    /\ UNCHANGED <<upload_vars, size_vars, catalog_vars, pipe_vars, rerun_vars>>

\* _is_healthy(visited), the executing frame up to its return or its call of
\* self.parent._is_healthy(visited.union([self])); an attribute read on a
\* parent that is None raises AttributeError
HealthStep ==
    /\ walk_pc = "health"
    /\ frames # <<>>
    /\ frame_result = None
    /\ LET n == frames[Len(frames)]
       IN IF n \notin DOMAIN remote
          THEN /\ walk_outcome' = "AttributeError"
               /\ walk_pc' = "done"
               /\ frames' = <<>>
               /\ UNCHANGED <<frame_result, stored_reason>>
          ELSE IF is_full(n)
          THEN /\ frame_result' = <<TRUE>>
               /\ frames' = Front(frames)
               /\ UNCHANGED <<walk_outcome, walk_pc, stored_reason>>
          ELSE IF n \in FrameVisited
          THEN /\ stored_reason' = [stored_reason EXCEPT ![n] = CYCLE]
               /\ frame_result' = <<FALSE>>
               /\ frames' = Front(frames)
               /\ UNCHANGED <<walk_outcome, walk_pc>>
          ELSE IF ParentIsNone(n)
          THEN /\ stored_reason' = [stored_reason EXCEPT ![n] = MISSING_PARENT]
               /\ frame_result' = <<FALSE>>
               /\ frames' = Front(frames)
               /\ UNCHANGED <<walk_outcome, walk_pc>>
          ELSE /\ frames' = Append(frames, parent_name(n))
               /\ UNCHANGED <<walk_outcome, walk_pc, frame_result, stored_reason>>
    /\ UNCHANGED <<walk_op, current_snap, restore_list>>
    /\ UNCHANGED <<walk_frame, is_healthy_cached_value, reported>>
    /\ UNCHANGED <<upload_vars, size_vars, catalog_vars, pipe_vars, rerun_vars>>

\* _is_healthy, lines 100-107: the parent's frame returned to the executing
\* frame, which stores its reason and returns False, or returns True
HealthReturn ==
    /\ walk_pc = "health"
    /\ frames # <<>>
    /\ frame_result # None
    /\ LET n == frames[Len(frames)]
       IN IF ~frame_result[1]
          THEN stored_reason' =
                  [stored_reason EXCEPT
                      ![n] = ReasonFromParent(stored_reason[parent_name(n)])]
          ELSE stored_reason' = stored_reason
    /\ frames' = Front(frames)
    /\ UNCHANGED <<walk_op, walk_pc, current_snap, restore_list, walk_outcome,
                   frame_result>>
    /\ UNCHANGED <<walk_frame, is_healthy_cached_value, reported>>
    /\ UNCHANGED <<upload_vars, size_vars, catalog_vars, pipe_vars, rerun_vars>>

\* the cached wrapper after _is_healthy() returned: the value is stored on
\* the snapshot and handed to whoever read is_healthy
HealthDone ==
    /\ walk_pc = "health"
    /\ frames = <<>>
    /\ frame_result # None
    /\ is_healthy_cached_value' =
          Put(is_healthy_cached_value, current_snap, frame_result[1])
    /\ frame_result' = None
    /\ IF walk_op = "restore"
       THEN walk_pc' = "decide" /\ walk_outcome' = walk_outcome
       ELSE walk_pc' = "done" /\ walk_outcome' = "returned"
    /\ UNCHANGED <<walk_op, current_snap, restore_list, frames>>
    /\ UNCHANGED <<walk_frame, stored_reason, reported>>
    /\ UNCHANGED <<upload_vars, size_vars, catalog_vars, pipe_vars, rerun_vars>>

\* restore, lines 417-420: past the dataset guard, the named remote snapshot
\* is looked up
RestoreBegin(snap_name) ==
    /\ walk_pc = "idle"
    /\ walk_op' = "restore"
    /\ IF ~S3Has(snap_name)
       THEN /\ walk_outcome' = "Exception"
            /\ walk_pc' = "done"
            /\ current_snap' = current_snap
       ELSE /\ current_snap' = snap_name
            /\ walk_pc' = "loop"
            /\ walk_outcome' = walk_outcome
    /\ UNCHANGED <<restore_list, frames, frame_result>>
    /\ UNCHANGED <<walk_frame, memo_vars>>
    /\ UNCHANGED <<upload_vars, size_vars, catalog_vars, pipe_vars, rerun_vars>>

\* restore, lines 421-426: the top of a loop pass.  current_snap.name on a
\* None raises AttributeError; a snapshot that exists locally ends the walk;
\* else current_snap.is_healthy is read, computed if it was not yet
RestoreLoop ==
    /\ walk_pc = "loop"
    /\ IF current_snap = NoName
       THEN /\ walk_outcome' = "AttributeError"
            /\ walk_pc' = "done"
            /\ frames' = frames
       ELSE IF ZfsHas(current_snap)
       THEN /\ walk_outcome' = "returned"
            /\ walk_pc' = "done"
            /\ frames' = frames
       ELSE IF current_snap \in DOMAIN is_healthy_cached_value
       THEN /\ walk_pc' = "decide"
            /\ UNCHANGED <<walk_outcome, frames>>
       ELSE /\ frames' = <<current_snap>>
            /\ walk_pc' = "health"
            /\ walk_outcome' = walk_outcome
    /\ UNCHANGED <<walk_op, current_snap, restore_list, frame_result>>
    /\ UNCHANGED <<walk_frame, memo_vars>>
    /\ UNCHANGED <<upload_vars, size_vars, catalog_vars, pipe_vars, rerun_vars>>

\* restore, lines 426-433: the rest of the loop pass, with is_healthy known.
\* self.parent is the catalog's snapshot of that name, or None
RestoreDecide ==
    /\ walk_pc = "decide"
    /\ IF ~is_healthy_cached_value[current_snap]
       THEN /\ walk_outcome' = "IntegrityError"
            /\ walk_pc' = "done"
            /\ UNCHANGED <<restore_list, current_snap>>
       ELSE /\ restore_list' = Append(restore_list, current_snap)
            /\ IF is_full(current_snap)
               THEN /\ walk_outcome' = "returned"
                    /\ walk_pc' = "done"
                    /\ current_snap' = current_snap
               ELSE /\ current_snap' = IF S3Has(parent_name(current_snap))
                                        THEN parent_name(current_snap)
                                        ELSE NoName
                    /\ walk_pc' = "loop"
                    /\ walk_outcome' = walk_outcome
    /\ UNCHANGED <<walk_op, frames, frame_result>>
    /\ UNCHANGED <<walk_frame, memo_vars>>
    /\ UNCHANGED <<upload_vars, size_vars, catalog_vars, pipe_vars, rerun_vars>>

\* a walk under way takes its next step
WalkRun ==
    \/ HealthStep
    \/ HealthReturn
    \/ HealthDone
    \/ RestoreLoop
    \/ RestoreDecide

WalkNext ==
    \/ \E n \in Names : HealthBegin(n)
    \/ \E n \in Names : RestoreBegin(n)
    \/ HealthStep
    \/ HealthReturn
    \/ HealthDone
    \/ RestoreLoop
    \/ RestoreDecide

\* any remote catalog and the local snapshots 1..k, nothing asked yet
WalkStart ==
    /\ SnapStart
    /\ zfs_list = IF Len(locals) > 0 THEN {Dataset} ELSE {}

WalkSpec == WalkStart /\ [][WalkNext]_vars

\* the interpreter keeps running the thread the walk runs in
FairWalkSpec == WalkStart /\ [][WalkNext]_vars /\ WF_vars(WalkRun)

\* ------------------------------------------------------ CommandExecutor
\* A command line is the sequence of words and "|" operators the system
\* shell reads from the text; building a text from pieces is concatenation.
\* the commands pipe() is given by backup and restore
FirstCommands == {<<"zfs", "send", "D@1">>, <<"zfs", "send", "-i", "D@1", "D@2">>,
                  <<"zfs3backup_get", "D@1">>}
SecondCommands == {<<"pput", "D@1">>, <<"zfs", "recv", "D@1">>,
                   <<"pigz", "-d", "|", "zfs", "recv", "D@1">>}

\* estimated_size: None, or a size
NoEstimate == "None"
Estimates == {NoEstimate, "1234"}

\* pipe: the meter command, with the size when one is given
PvCommand(estimated_size) ==
    IF estimated_size = NoEstimate THEN <<"pv">>
    ELSE <<"pv", "--size", estimated_size>>

\* pipe, line 287: the text "{cmd1} | {cmd2}" as written, not an f-string,
\* so the braces and names reach shell() as they are
Unformatted(cmd1, cmd2) == <<"{cmd1}", "|", "{cmd2}">>

\* CommandExecutor.pipe(cmd1, cmd2, quiet, estimated_size): the command line
\* it hands to shell()
PipeLine(cmd1, cmd2, quiet, estimated_size) ==
    IF has_pv /\ ~quiet
    THEN cmd1 \o <<"|">> \o PvCommand(estimated_size) \o <<"|">> \o cmd2
    ELSE Unformatted(cmd1, cmd2)

\* CommandExecutor.pipe(...) and the shell(cmd, dry_run) call it ends with:
\* print in a dry run, else subprocess.check_call(cmd, shell=True)
Pipe(cmd1, cmd2, quiet, estimated_size, dry_run) ==
    /\ pipe_call = None
    /\ pipe_call' = <<[cmd1 |-> cmd1, cmd2 |-> cmd2, quiet |-> quiet,
                       estimated_size |-> estimated_size, dry_run |-> dry_run]>>
    /\ IF dry_run
       THEN /\ printed' = PipeLine(cmd1, cmd2, quiet, estimated_size)
            /\ executed' = executed
       ELSE /\ executed' = PipeLine(cmd1, cmd2, quiet, estimated_size)
            /\ printed' = printed
    /\ UNCHANGED has_pv
    /\ UNCHANGED <<upload_vars, snap_vars, size_vars, catalog_vars, walk_vars, rerun_vars>>

PipeNext ==
    \/ \E cmd1 \in FirstCommands, cmd2 \in SecondCommands, quiet \in BOOLEAN,
          estimated_size \in Estimates, dry_run \in BOOLEAN :
             Pipe(cmd1, cmd2, quiet, estimated_size, dry_run)

\* a CommandExecutor on a system with or without pv
PipeStart ==
    /\ UploadIdle
    /\ SnapIdle
    /\ SizeIdle
    /\ CatalogIdle
    /\ WalkIdle
    /\ RerunIdle
    /\ has_pv \in BOOLEAN
    /\ pipe_call = None
    /\ printed = None
    /\ executed = None

PipeSpec == PipeStart /\ [][PipeNext]_vars

\* ----------------------------------------------- snapshot properties
\* the snapshots the pipelines issued so far upload, in order
Uploaded == LET ps == SelectSeq(cmds, LAMBDA c : c.call = "pipe")
            IN [i \in 1..Len(ps) |-> ps[i].snap]

\* the locals on the parent path of the target (the names 1..target) that
\* are present remotely
PresentOnPath == {n \in 1..target : S3Has(n)}

Youngest(S) == CHOOSE n \in S : \A m \in S : m <= n

\* C10: backup_incremental(T) uploads exactly the locals on T's parent path
\* that are younger than the youngest one present remotely (when that one is
\* healthy), and with none present remotely it uploads the whole path, root
\* included, and succeeds.
C10_BackupMinimality ==
    (op = "backup_incremental" /\ target # NoName) =>
        IF PresentOnPath # {}
        THEN is_healthy(Youngest(PresentOnPath)) =>
                /\ snap_outcome = "returned"
                /\ Uploaded = [i \in 1..target - Youngest(PresentOnPath) |->
                                  Youngest(PresentOnPath) + i]
        ELSE /\ snap_outcome = "returned"
             /\ Uploaded = [i \in 1..target |-> i]

\* C10, the case the code gets right: with a healthy ancestor (or the target
\* itself) present remotely, exactly the younger locals are uploaded, oldest
\* first.
C10_PresentAncestorCase ==
    (op = "backup_incremental" /\ target # NoName /\ PresentOnPath # {}
        /\ is_healthy(Youngest(PresentOnPath))) =>
            /\ snap_outcome = "returned"
            /\ Uploaded = [i \in 1..target - Youngest(PresentOnPath) |->
                              Youngest(PresentOnPath) + i]

\* C10, what the code does with no local of the path present remotely: the
\* root local has no parent, the first pass of the upload loop raises, and
\* nothing is uploaded.
C10_NothingRemoteRaises ==
    (op = "backup_incremental" /\ target # NoName /\ PresentOnPath = {}) =>
        /\ snap_outcome = "AttributeError"
        /\ cmds = <<>>

\* the snapshots the pipelines issued so far receive, in order
Restored == LET ps == SelectSeq(cmds, LAMBDA c : c.call = "pipe" /\ c.cmd = "recv")
            IN [i \in 1..Len(ps) |-> ps[i].snap]

\* each snapshot received after the first is an incremental whose parent
\* metadata names the one received just before, and the target is last
RestoredLinked ==
    /\ \A i \in 2..Len(Restored) :
          /\ ~is_full(Restored[i])
          /\ parent_name(Restored[i]) = Restored[i - 1]
    /\ Restored[Len(Restored)] = target

\* C11 as stated: the pipelines restore issues are parent-first, the first
\* snapshot received is a full one, each later one is an incremental whose
\* parent is the one received just before, and the target is last, for every
\* local catalog, also when an ancestor of the target exists locally.
C11_RestoreStartsAtFull ==
    (op = "restore" /\ Restored # <<>>) =>
        /\ is_full(Restored[1])
        /\ RestoredLinked

\* C11 amended: the first snapshot received is a full one, or an incremental
\* whose parent exists locally (the walk ends at a snapshot found locally);
\* each later one is an incremental whose parent is the one received just
\* before, and the target is last.
C11_RestoreParentFirst ==
    (op = "restore" /\ Restored # <<>>) =>
        /\ \/ is_full(Restored[1])
           \/ ZfsHas(parent_name(Restored[1]))
        /\ RestoredLinked

\* a restore of two or more snapshots on top of a local ancestor
C11_Witness ==
    /\ op = "restore"
    /\ Len(Restored) >= 2
    /\ ~is_full(Restored[1])

\* C12: when the first snapshot on the walk from the target toward older
\* locals that is present remotely is unhealthy, backup_incremental raises
\* IntegrityError before any dry-send, send or upload command.
C12_BackupIntegrityError ==
    (op = "backup_incremental" /\ target # NoName /\ PresentOnPath # {}
        /\ ~is_healthy(Youngest(PresentOnPath))) =>
            /\ snap_outcome = "IntegrityError"
            /\ cmds = <<>>

\* the walk passed at least one local that is not remote before it met the
\* unhealthy remote snapshot
C12_Witness ==
    /\ op = "backup_incremental"
    /\ snap_outcome = "IntegrityError"
    /\ target # NoName
    /\ ~S3Has(target)
    /\ ~is_healthy(Youngest(PresentOnPath))

\* restore got past the dataset guard and found the target remotely
RestoreWalked ==
    /\ op = "restore"
    /\ snap_outcome \notin {"DatasetExists", "Exception"}

\* the remote snapshots restore's walk visits: current_snap, pass by pass
RECURSIVE VisitedFrom(_, _)
VisitedFrom(current, seen) ==
    IF ZfsHas(current) \/ ~is_healthy(current) \/ is_full(current)
    THEN seen \cup {current}
    ELSE VisitedFrom(parent_name(current), seen \cup {current})

Visited == VisitedFrom(target, {})

\* C13 as stated: if any remote snapshot visited while walking parent links
\* from the target is unhealthy, restore raises IntegrityError and issues no
\* pipeline.
C13_RestoreIntegrityError ==
    (RestoreWalked /\ \E n \in Visited : ~is_healthy(n)) =>
        /\ snap_outcome = "IntegrityError"
        /\ cmds = <<>>

\* C13 amended: if any remote snapshot visited that does not exist locally is
\* unhealthy, restore raises IntegrityError and issues no pipeline; a visited
\* snapshot that exists locally ends the walk before its health is looked at,
\* and then too no pipeline for an unhealthy snapshot is issued.
C13_RestoreIntegrityErrorUnlessLocal ==
    /\ (RestoreWalked /\ \E n \in Visited : ~ZfsHas(n) /\ ~is_healthy(n)) =>
          /\ snap_outcome = "IntegrityError"
          /\ cmds = <<>>
    /\ (RestoreWalked /\ \E n \in Visited : ~is_healthy(n)) => cmds = <<>>

\* restore raised for a catalog that has local snapshots
C13_Witness ==
    /\ op = "restore"
    /\ snap_outcome = "IntegrityError"
    /\ Len(locals) > 0
    /\ \E n \in Visited : ~ZfsHas(n) /\ ~is_healthy(n)

\* the send | upload pipelines backup_incremental issued so far, in order
UploadPipes == SelectSeq(cmds, LAMBDA c : c.call = "pipe" /\ c.cmd = "send")

\* C14: backup_incremental issues its uploads oldest to newest, each with
\* metadata parent naming the snapshot's immediately preceding local
\* snapshot, so when an upload is issued its parent is already present
\* remotely or was uploaded earlier in the same run.
C14_UploadOrderChainClosure ==
    op = "backup_incremental" =>
        \A i \in 1..Len(UploadPipes) :
            /\ UploadPipes[i].meta = [isfull |-> FALSE,
                                      parent |-> LocalParent(UploadPipes[i].snap)]
            /\ UploadPipes[i].from = LocalParent(UploadPipes[i].snap)
            /\ i > 1 => UploadPipes[i].meta.parent = UploadPipes[i - 1].snap
            /\ \/ S3Has(UploadPipes[i].meta.parent)
               \/ \E j \in 1..(i - 1) : UploadPipes[j].snap = UploadPipes[i].meta.parent

\* a run that uploaded two snapshots on top of a remote ancestor
C14_Witness ==
    /\ op = "backup_incremental"
    /\ snap_outcome = "returned"
    /\ Len(UploadPipes) >= 2
    /\ UploadPipes[Len(UploadPipes)].snap = target

\* the recv pipelines restore issued so far
RecvPipesIssued == SelectSeq(cmds, LAMBDA c : c.call = "pipe" /\ c.cmd = "recv")

\* C18: if the target dataset exists locally and force is false, restore
\* reports and returns without walking the chain or issuing any pipeline;
\* with force true the guard is skipped and every recv carries -F.
C18_RestoreGuard ==
    /\ (op = "restore" /\ ~force /\ Dataset \in zfs_list) =>
          /\ snap_outcome = "DatasetExists"
          /\ cmds = <<>>
          /\ is_healthy_cached_value = <<>>
    /\ (op = "restore" /\ force) =>
          /\ snap_outcome # "DatasetExists"
          /\ \A i \in 1..Len(RecvPipesIssued) : RecvPipesIssued[i].F

\* C18, the part the code keeps: with force true the guard is skipped and
\* every recv carries -F; without force no recv carries it.
C18_ForceCarriesF ==
    op = "restore" =>
        /\ force => snap_outcome # "DatasetExists"
        /\ \A i \in 1..Len(RecvPipesIssued) : RecvPipesIssued[i].F = force

\* C18, what the code does: the guard compares the str dataset name with the
\* bytes names of the listing, finds none equal, and never reports.
C18_GuardNeverFires ==
    op = "restore" => snap_outcome # "DatasetExists"

\* the name a pair stands for
PairName(p) == IF p.z # NoName THEN p.z ELSE p.s3

\* C19: PairManager.list covers the union of local and remote names, every
\* name in exactly one pair; every pair has a non-null side; a pair's remote
\* side is the remote snapshot of the same name as its local side; the pairs
\* with a local side come first, in local catalog order, then the
\* remote-only pairs.
C19_ListCoversUnion ==
    op = "list" =>
        /\ {PairName(pairs[i]) : i \in 1..Len(pairs)} =
               {locals[i] : i \in 1..Len(locals)} \cup DOMAIN remote
        /\ \A i, j \in 1..Len(pairs) : i # j => PairName(pairs[i]) # PairName(pairs[j])
        /\ \A i \in 1..Len(pairs) :
              /\ pairs[i].z # NoName \/ pairs[i].s3 # NoName
              /\ pairs[i].s3 # NoName => S3Has(pairs[i].s3)
              /\ pairs[i].z # NoName =>
                    pairs[i].s3 = IF S3Has(pairs[i].z) THEN pairs[i].z ELSE NoName
        /\ Len(pairs) >= Len(locals)
        /\ \A i \in 1..Len(locals) : pairs[i].z = locals[i]
        /\ \A i \in (Len(locals) + 1)..Len(pairs) : pairs[i].z = NoName

\* a listing with a pair present on both sides, a local-only pair listed out
\* of name order, and a remote-only pair whose name sorts before a local's
C19_Witness ==
    /\ op = "list"
    /\ \E i \in 1..Len(pairs) : pairs[i].z # NoName /\ pairs[i].s3 # NoName
    /\ \E i \in 1..Len(pairs) : pairs[i].z # NoName /\ pairs[i].s3 = NoName
    /\ \E i, j \in 1..Len(pairs) :
          /\ pairs[i].z = NoName
          /\ pairs[j].z # NoName
          /\ pairs[i].s3 < pairs[j].z
    /\ \E i, j \in 1..Len(locals) : i < j /\ locals[i] > locals[j]

\* C21: every upload command the backup operations build carries exactly one
\* of isfull=true and parent=<name>: backup_full sends isfull=true and no
\* parent, every upload of backup_incremental sends a parent that names an
\* existing local snapshot and no isfull.
C21_MetadataExclusive ==
    \A i \in 1..Len(UploadPipes) :
        /\ UploadPipes[i].meta.isfull # (UploadPipes[i].meta.parent # NoName)
        /\ op = "backup_full" =>
              /\ UploadPipes[i].meta.isfull
              /\ UploadPipes[i].meta.parent = NoName
        /\ op = "backup_incremental" =>
              /\ ~UploadPipes[i].meta.isfull
              /\ ZfsHas(UploadPipes[i].meta.parent)

\* a full backup of a snapshot that has an older local snapshot before it
C21_Witness ==
    /\ op = "backup_full"
    /\ snap_outcome = "returned"
    /\ Len(UploadPipes) = 1
    /\ LocalParent(UploadPipes[1].snap) # NoName
    /\ UploadPipes[1].meta.isfull

\* the decompress command COMPRESSORS gives for a snapshot's own label
OwnDecompressor(n) ==
    IF compressor[n] \in {"pigz1", "pigz4"} THEN "pigz -d" ELSE NoCommand

\* C23: in every restore each pipeline's decompressor is selected from the
\* compressor metadata of the snapshot that pipeline downloads (none when
\* the label is absent or not recognized), not from the target's.
C23_DecompressPerSnapshot ==
    op = "restore" =>
        \A i \in 1..Len(RecvPipesIssued) :
            RecvPipesIssued[i].decompress = OwnDecompressor(RecvPipesIssued[i].snap)

\* a restore of a chain whose first pipeline decompresses and whose last one,
\* the target's, does not
C23_Witness ==
    /\ op = "restore"
    /\ Len(RecvPipesIssued) >= 2
    /\ RecvPipesIssued[1].decompress = "pigz -d"
    /\ RecvPipesIssued[Len(RecvPipesIssued)].decompress = NoCommand
    /\ compressor[target] = "lz4"

\* ---------------------------------------------- local catalog properties
\* the tags of the listing that start with the prefix, in listing order
Filtered == SelectSeq(listing, LAMBDA t : StartsWith(t, snapshot_prefix))

\* C24: the local catalog holds the snapshots whose tag starts with the
\* prefix, in listing order; each entry's parent is the entry just before it
\* in that filtered sequence, the first has none, and a snapshot the prefix
\* filtered out is nobody's parent.
C24_LocalParentLinks ==
    built # None =>
        LET snapshots == built[1]
        IN /\ [i \in 1..Len(snapshots) |-> snapshots[i].name] = Filtered
           /\ \A i \in 1..Len(snapshots) :
                 snapshots[i].parent = IF i = 1 THEN None ELSE snapshots[i - 1].name
           /\ \A i \in 1..Len(snapshots), j \in 1..Len(listing) :
                 ~StartsWith(listing[j], snapshot_prefix) =>
                     snapshots[i].parent # listing[j]

\* a catalog of two snapshots with a filtered-out snapshot listed between
C24_Witness ==
    /\ built # None
    /\ Len(built[1]) >= 2
    /\ \E j \in 2..(Len(listing) - 1) :
          /\ ~StartsWith(listing[j], snapshot_prefix)
          /\ StartsWith(listing[j - 1], snapshot_prefix)
          /\ StartsWith(listing[j + 1], snapshot_prefix)

\* ------------------------------------------------ CommandExecutor properties
\* the pipeline 'a | meter | b' or 'a | b' the call should run
ExpectedPipeLine(c) ==
    IF has_pv /\ ~c.quiet
    THEN c.cmd1 \o <<"|">> \o PvCommand(c.estimated_size) \o <<"|">> \o c.cmd2
    ELSE c.cmd1 \o <<"|">> \o c.cmd2

\* C25: pipe(a, b) runs 'a | meter | b' when the meter is available and quiet
\* is false, and otherwise 'a | b'; in a dry run the same pipeline is
\* printed and nothing is executed.
C25_PipeConstruction ==
    pipe_call # None =>
        IF pipe_call[1].dry_run
        THEN printed = ExpectedPipeLine(pipe_call[1]) /\ executed = None
        ELSE executed = ExpectedPipeLine(pipe_call[1]) /\ printed = None

\* C25, the part the code keeps: with the meter available and quiet false
\* the pipeline is 'a | meter | b', printed and not executed in a dry run.
C25_WithMeter ==
    (pipe_call # None /\ has_pv /\ ~pipe_call[1].quiet) =>
        IF pipe_call[1].dry_run
        THEN printed = ExpectedPipeLine(pipe_call[1]) /\ executed = None
        ELSE executed = ExpectedPipeLine(pipe_call[1]) /\ printed = None

\* C25, what the code does without the meter or with quiet true: the command
\* line is the unformatted text, whatever the two commands are.
C25_WithoutMeterUnformatted ==
    (pipe_call # None /\ ~(has_pv /\ ~pipe_call[1].quiet)) =>
        IF pipe_call[1].dry_run
        THEN printed = <<"{cmd1}", "|", "{cmd2}">> /\ executed = None
        ELSE executed = <<"{cmd1}", "|", "{cmd2}">> /\ printed = None

\* ------------------------------------------------ chunk size properties
\* C20 as stated: for every estimate E >= 0 the chunk size returned
\* satisfies chunk * 9999 >= 1.05 * E and chunk >= 10 MiB, also after the
\* truncation to whole bytes.
C20_ChunkSizeCoversEstimate ==
    optimized # None =>
        /\ optimized[1] * max_parts * 100 >= 105 * estimated
        /\ optimized[1] >= MinPartSize

\* C20 amended: chunk >= 10 MiB and chunk * 9999 >= E, so a stream of at most
\* E bytes needs at most 9999 parts; of the 5% margin the truncation can take
\* less than one byte per part: (chunk + 1) * 9999 > 1.05 * E.
C20_ChunkSizeCoversStream ==
    optimized # None =>
        /\ optimized[1] >= MinPartSize
        /\ optimized[1] * max_parts >= estimated
        /\ (optimized[1] + 1) * max_parts * 100 > 105 * estimated

\* an estimate large enough for the part-count term to pass the floor, with
\* a quotient that is not a whole number of bytes
C20_Witness ==
    /\ optimized # None
    /\ optimized[1] > MinPartSize
    /\ optimized[1] * max_parts * 100 < 105 * estimated

\* ------------------------------------------------ lineage properties
\* the remote snapshots on n's chain: n, then the parent of each non-full
\* snapshot that has one in the catalog, up to a repeat
RECURSIVE ChainFrom(_, _)
ChainFrom(n, seen) ==
    IF n \in seen THEN seen
    ELSE IF is_full(n) \/ ~S3Has(parent_name(n)) THEN seen \cup {n}
    ELSE ChainFrom(parent_name(n), seen \cup {n})

Chain(n) == ChainFrom(n, {})

\* a non-full snapshot whose parent is not in the catalog
ParentMissing(m) == ~is_full(m) /\ ~S3Has(parent_name(m))

\* a non-full snapshot whose chain comes back to it
OnCycle(m) ==
    /\ ~is_full(m)
    /\ S3Has(parent_name(m))
    /\ m \in Chain(parent_name(m))

\* every value the cache holds is what _is_healthy() computes on the catalog
CacheAgrees ==
    \A n \in DOMAIN is_healthy_cached_value :
        is_healthy_cached_value[n] = is_healthy(n)

\* C15: in a chain where a non-full snapshot's parent does not exist, that
\* snapshot is classified missing parent, every snapshot whose chain leads
\* to it is classified parent broken, and none of them is healthy.
C15_MissingAncestor ==
    \A n \in DOMAIN remote :
        (\E m \in Chain(n) : ParentMissing(m)) =>
            /\ n \in DOMAIN reported =>
                  reported[n] = IF ParentMissing(n) THEN MISSING_PARENT
                                ELSE PARENT_BROKEN
            /\ n \in DOMAIN is_healthy_cached_value => ~is_healthy_cached_value[n]

\* a snapshot two links above the missing parent was classified after, and
\* one after, the snapshot between them
C15_Witness ==
    \E n \in DOMAIN reported :
        /\ reported[n] = PARENT_BROKEN
        /\ parent_name(n) \in DOMAIN reported
        /\ reported[parent_name(n)] = PARENT_BROKEN
        /\ parent_name(parent_name(n)) \in DOMAIN reported
        /\ reported[parent_name(parent_name(n))] = MISSING_PARENT

\* C16: with a cycle of non-full snapshots in the parent graph (a self-loop
\* included), every snapshot on the cycle and every snapshot whose chain
\* leads into it is classified cycle, whichever snapshots were queried.
C16_CycleDetected ==
    \A n \in DOMAIN remote :
        (\E m \in Chain(n) : OnCycle(m)) =>
            /\ n \in DOMAIN reported => reported[n] = CYCLE
            /\ n \in DOMAIN is_healthy_cached_value => ~is_healthy_cached_value[n]

\* a two-snapshot cycle and a snapshot leading into it, all three classified
C16_Witness ==
    \E n \in DOMAIN reported :
        /\ ~OnCycle(n)
        /\ reported[n] = CYCLE
        /\ \E m \in Chain(n) :
              /\ OnCycle(m)
              /\ parent_name(m) # m
              /\ m \in DOMAIN reported
              /\ parent_name(m) \in DOMAIN reported

\* C17: a full remote snapshot is healthy, with an empty reason_broken,
\* whatever its parent metadata says and whatever was queried before.
C17_FullIsHealthy ==
    \A n \in DOMAIN remote :
        is_full(n) =>
            /\ n \in DOMAIN reported => reported[n] = NoReason
            /\ n \in DOMAIN is_healthy_cached_value => is_healthy_cached_value[n]
            /\ stored_reason[n] = NoReason

\* a full snapshot whose parent metadata names a missing snapshot, queried
\* after a broken snapshot whose chain ends at it
C17_Witness ==
    \E n \in DOMAIN reported :
        /\ is_full(n)
        /\ parent_name(n) # NoName
        /\ ~S3Has(parent_name(n))
        /\ reported[n] = NoReason
        /\ \E m \in DOMAIN reported : m # n /\ reported[m] # NoReason

\* a resolver that has answered nothing yet: no cached value, every
\* _reason_broken still None
FreshIsHealthy(n) ==
    IsHealthyGet(n, <<>>, [m \in DOMAIN remote |-> NoReason]).value
FreshReasonBroken(n) ==
    ReasonBrokenGet(n, <<>>, [m \in DOMAIN remote |-> NoReason]).value

\* C29: is_healthy and reason_broken of every snapshot, asked of a resolver
\* that already answered other queries in any order, equal what a fresh
\* resolver over the same metadata answers; so do the answers it gave.
C29_QueryOrderIndependent ==
    \A n \in DOMAIN remote :
        /\ IsHealthyGet(n, is_healthy_cached_value, stored_reason).value
              = FreshIsHealthy(n)
        /\ ReasonBrokenGet(n, is_healthy_cached_value, stored_reason).value
              = FreshReasonBroken(n)
        /\ n \in DOMAIN is_healthy_cached_value =>
              is_healthy_cached_value[n] = FreshIsHealthy(n)
        /\ n \in DOMAIN reported => reported[n] = FreshReasonBroken(n)

\* a resolver that has reported a cycle and a missing parent and has a
\* snapshot still to answer for that an earlier query already walked through
C29_Witness ==
    /\ \E n \in DOMAIN reported : reported[n] = CYCLE
    /\ \E n \in DOMAIN reported : reported[n] = MISSING_PARENT
    /\ \E n \in DOMAIN remote :
          /\ n \notin DOMAIN is_healthy_cached_value
          /\ stored_reason[n] # NoReason

\* ------------------------------------------------ chain walk properties
\* C30: on every remote catalog, cycles, self-loops and missing parents
\* included, the health computation of any snapshot terminates, and the
\* chain walk of restore terminates, at a full snapshot, at a snapshot that
\* exists locally or with an IntegrityError, and no step of either reads an
\* attribute of a missing parent.
C30_WalksTerminate ==
    /\ [](walk_outcome # "AttributeError")
    /\ []((walk_pc = "done" /\ walk_op = "restore" /\ walk_outcome = "returned")
            => ZfsHas(current_snap) \/ is_full(current_snap))
    /\ (walk_pc # "idle") ~> (walk_pc = "done")

\* C30, the step by step health computation ends with the value and the
\* reasons the recursive definition gives
C30_StepwiseAgrees ==
    (walk_pc = "done" /\ walk_op = "is_healthy") =>
        LET r == IsHealthyRun(current_snap, {}, [m \in DOMAIN remote |-> NoReason])
        IN /\ is_healthy_cached_value[current_snap] = r.ok
           /\ stored_reason = r.reason

\* a restore walk that took one healthy snapshot, moved to its parent and
\* ended at a local snapshot, on a catalog that also holds a cycle
C30_Witness ==
    /\ walk_pc = "done"
    /\ walk_op = "restore"
    /\ walk_outcome = "returned"
    /\ Len(restore_list) >= 1
    /\ ZfsHas(current_snap)
    /\ \E m \in DOMAIN remote : OnCycle(m)

\* ------------------------------------------------ repeated backup properties
\* C31: when the target local snapshot is already present remotely and
\* healthy, backup_incremental issues no send or upload and returns an empty
\* list; so after a successful backup_incremental(T) whose uploads the
\* remote catalog holds, a second backup_incremental(T) uploads nothing.
C31_IncrementalIdempotent ==
    /\ (op = "backup_incremental" /\ target # NoName /\ S3Has(target)
            /\ is_healthy(target))
         => (cmds = <<>> /\ snap_outcome = "returned")
    /\ (first_run # None /\ op = "backup_incremental"
            /\ target = first_run[1].target)
         => (cmds = <<>> /\ snap_outcome = "returned")

\* a second backup_incremental of the target of a first one that uploaded
\* two snapshots, returned with nothing issued
C31_Witness ==
    /\ first_run # None
    /\ Len(SendPipes(first_run[1].cmds)) >= 2
    /\ op = "backup_incremental"
    /\ target = first_run[1].target
    /\ snap_outcome = "returned"
    /\ cmds = <<>>

====
